---- MODULE Spec2Model ----
(***************************************************************************)
(* Model of the insights route (POST /api/insights) of git-monitor: the    *)
(* validation of the request body, the pre-processing of the commit batch, *)
(* the contributor and repository statistics, and the staged prompt        *)
(* pipeline with its per-stage failure handling.                           *)
(*                                                                         *)
(* Texts are modelled as sequences: a patch is the sequence of its lines,  *)
(* the report (combinedAnalysis) and every prompt are sequences of parts,  *)
(* each part a record whose "kind" tells what was appended.                *)
(***************************************************************************)
EXTENDS Integers, Sequences, FiniteSets, TLC

(***************************************************************************)
(* Bounds of the model and constants of the program.                       *)
(***************************************************************************)
\* longest commit batch a request carries in the model
MaxCommits == 2

\* processCommitsForAnalysis: .slice(0, 5)
FileCap == 5
\* truncatePatch: default value of maxLines
DefaultMaxLines == 20
\* preamble: contributors.slice(0, 5)
TopContributors == 5
\* project stage: filesList.slice(0, 50)
FileSample == 50
\* project stage: processedCommits.slice(0, 5)
RecentCommits == 5
\* prompt blocks: fileDetails.slice(0, 3)
PatchSample == 3

(***************************************************************************)
(* Generic sequence helpers (Array.prototype.slice / filter / Set).        *)
(***************************************************************************)
Min(a, b) == IF a <= b THEN a ELSE b

\* s.slice(0, n)
Take(s, n) == SubSeq(s, 1, Min(n, Len(s)))

\* s.slice(Len(s) - n) for 0 <= n
LastN(s, n) == SubSeq(s, Len(s) - Min(n, Len(s)) + 1, Len(s))

RECURSIVE Concat(_)
\* flatMap / join of a sequence of sequences
Concat(ss) == IF ss = <<>> THEN <<>> ELSE Head(ss) \o Concat(Tail(ss))

Range(s) == {s[i] : i \in 1..Len(s)}

RECURSIVE DedupFrom(_, _)
DedupFrom(s, seen) ==
    IF s = <<>> THEN <<>>
    ELSE IF Head(s) \in seen THEN DedupFrom(Tail(s), seen)
         ELSE <<Head(s)>> \o DedupFrom(Tail(s), seen \cup {Head(s)})

\* Array.from(new Set(s)): the distinct elements in insertion order
Dedup(s) == DedupFrom(s, {})

\* whether sub occurs in s as a contiguous block
Contains(s, sub) ==
    \E i \in 0..(Len(s) - Len(sub)) :
        \A j \in 1..Len(sub) : s[i + j] = sub[j]

(***************************************************************************)
(* truncatePatch.  A patch text is the sequence of its lines, lines being  *)
(* positive naturals; the empty string is the empty sequence.  The blank   *)
(* line is 0 and the marker line printing n is the negative number -n-1.   *)
(***************************************************************************)
Marker(n) == -n - 1
BlankLine == 0

\* lines.join('\n') as it stands inside the template of line 42: no line
\* at all joins to the empty string, which is one blank line of the result
joined(lines) == IF lines = <<>> THEN <<BlankLine>> ELSE lines

\* a truncation that already elides a text of exactly maxLines lines
truncateBelowBudget(patch, maxLines) ==
    IF patch = <<>> THEN <<>>
    ELSE IF Len(patch) < maxLines THEN patch
    ELSE joined(Take(patch, maxLines \div 2))
           \o <<BlankLine, Marker(Len(patch) - maxLines), BlankLine>>
           \o joined(LastN(patch, (maxLines + 1) \div 2))

truncatePatch(patch, maxLines) ==
    IF patch = <<>> THEN <<>>
    ELSE IF Len(patch) <= maxLines THEN patch
    ELSE LET firstHalf  == joined(Take(patch, maxLines \div 2))
             \* slice(lines.length - maxLines / 2): a fractional start index
             \* is truncated, so an odd budget keeps one more trailing line
             secondHalf == joined(LastN(patch, (maxLines + 1) \div 2))
         IN  firstHalf
               \o <<BlankLine, Marker(Len(patch) - maxLines), BlankLine>>
               \o secondHalf

(***************************************************************************)
(* The request data: FileDetail, MergeDetail, Commit (types of the route). *)
(***************************************************************************)
NoMergeDetails == [present |-> FALSE, totalCommits |-> 0, changedFiles |-> <<>>]

MergeDetail(total, changed) ==
    [present |-> TRUE, totalCommits |-> total, changedFiles |-> changed]

FileDetail(name, adds, dels, patchLines) ==
    [filename |-> name, status |-> "modified", additions |-> adds,
     deletions |-> dels, patch |-> [i \in 1..patchLines |-> i]]

\* the files field as the commits route fills it: the names of the detail's files
Filenames(fileSeq) == [i \in 1..Len(fileSeq) |-> fileSeq[i].filename]

Commit(author, message, isMerge, mergeDetails, fileDetails) ==
    [author |-> author, message |-> message, isMergeCommit |-> isMerge,
     mergeDetails |-> mergeDetails, fileDetails |-> fileDetails,
     files |-> Filenames(fileDetails)]

FileA == FileDetail("src/a.ts", 3, 1, 2)
FileB == FileDetail("src/b.ts", 2, 2, 0)
FileC == FileDetail("lib/c.ts", 4, 0, DefaultMaxLines + 2)

ManyNames == <<"m/1", "m/2", "m/3", "m/4", "m/5", "m/6", "m/7", "m/8">>

\* a file list one longer than the cap of processCommitsForAnalysis
ManyFiles == [i \in 1..(FileCap + 1) |-> FileDetail(ManyNames[i], i, 1, 0)]

\* the commits a batch is drawn from: direct commits with and without files
\* and with more files than the cap, merges with provenance, merges whose
\* parent comparison failed (mergeDetails null), merges carrying the file
\* list of their own detail lookup, a commit with an empty author, a commit
\* whose author name is a canonical array index, and commits whose author
\* name is a property every object inherits
CommitPool ==
    { Commit("alice", <<"feat: a">>, FALSE, NoMergeDetails, <<FileA>>),
      Commit("bob", <<"chore">>, FALSE, NoMergeDetails, <<>>),
      Commit("alice", <<"refactor", "", "body">>, FALSE, NoMergeDetails, ManyFiles),
      Commit("", <<"fix: b">>, FALSE, NoMergeDetails, <<FileB, FileC>>),
      Commit("bob", <<"Merge x">>, TRUE, MergeDetail(2, <<FileC, FileA>>), <<>>),
      Commit("alice", <<"Merge y">>, TRUE, NoMergeDetails, <<>>),
      Commit("bob", <<"Merge z">>, TRUE, NoMergeDetails, <<FileB>>),
      Commit("alice", <<"Merge w">>, TRUE, MergeDetail(7, ManyFiles), <<FileB>>),
      Commit("7", <<"docs">>, FALSE, NoMergeDetails, <<FileA>>),
      Commit("constructor", <<"wip">>, FALSE, NoMergeDetails, <<>>),
      Commit("constructor", <<"init">>, FALSE, NoMergeDetails, <<FileB>>) }

RECURSIVE SeqsUpTo(_, _)
\* the sequences over S of length at most n
SeqsUpTo(S, n) ==
    IF n = 0 THEN {<<>>}
    ELSE LET shorter == SeqsUpTo(S, n - 1)
         IN  shorter \cup {Append(s, x) : s \in {t \in shorter : Len(t) = n - 1}, x \in S}

Batches == SeqsUpTo(CommitPool, MaxCommits)

\* the value of the commits field of a JSON object body
CommitsField ==
    {[type |-> t, items |-> <<>>] : t \in {"undefined", "null", "string", "object"}}
      \cup {[type |-> "array", items |-> b] : b \in Batches}

\* what req.json() meets: text that is no JSON, the JSON null, a JSON scalar,
\* or a JSON object with or without a commits field
Bodies ==
    {[json |-> j, commits |-> [type |-> "undefined", items |-> <<>>]] :
        j \in {"invalid", "null", "scalar"}}
      \cup {[json |-> "object", commits |-> c] : c \in CommitsField}

(***************************************************************************)
(* processCommitsForAnalysis                                               *)
(***************************************************************************)
limitFiles(fileSeq) ==
    LET kept == Take(fileSeq, FileCap)
    IN  [i \in 1..Len(kept) |->
            [kept[i] EXCEPT !.patch = truncatePatch(@, DefaultMaxLines)]]

processCommit(commit) ==
    [commit EXCEPT
        !.fileDetails = limitFiles(@),
        !.mergeDetails = IF @.present
                         THEN [@ EXCEPT !.changedFiles = limitFiles(@)]
                         ELSE NoMergeDetails]

processCommitsForAnalysis(commits) ==
    [i \in 1..Len(commits) |-> processCommit(commits[i])]

(***************************************************************************)
(* analyzeContributors                                                     *)
(***************************************************************************)
\* commit.author || "Unknown"
AuthorKey(commit) == IF commit.author = "" THEN "Unknown" ELSE commit.author

NewContributor ==
    [count |-> 0, directCommits |-> 0, mergeCommits |-> 0,
     additions |-> 0, deletions |-> 0, files |-> {}]

RECURSIVE addFiles(_, _)
\* the forEach over the files of one commit
addFiles(entry, fileSeq) ==
    IF fileSeq = <<>> THEN entry
    ELSE addFiles([entry EXCEPT !.additions = @ + Head(fileSeq).additions,
                                !.deletions = @ + Head(fileSeq).deletions,
                                !.files = @ \cup {Head(fileSeq).filename}],
                  Tail(fileSeq))

\* a forEach body that counts the commit only on its direct branch
countDirectOnly(entry, commit) ==
    IF commit.isMergeCommit
    THEN LET merged == [entry EXCEPT !.mergeCommits = @ + 1]
         IN  IF commit.mergeDetails.present
             THEN addFiles(merged, commit.mergeDetails.changedFiles)
             ELSE merged
    ELSE addFiles([entry EXCEPT !.count = @ + 1, !.directCommits = @ + 1],
                  commit.fileDetails)

\* the body of commits.forEach for one commit, on its author's entry
countCommit(entry, commit) ==
    LET counted == [entry EXCEPT !.count = @ + 1]
    IN  IF commit.isMergeCommit
        THEN LET merged == [counted EXCEPT !.mergeCommits = @ + 1]
             IN  IF commit.mergeDetails.present
                 THEN addFiles(merged, commit.mergeDetails.changedFiles)
                 ELSE merged
        ELSE addFiles([counted EXCEPT !.directCommits = @ + 1], commit.fileDetails)

\* the author names that are properties of Object.prototype: on the object
\* literal of line 89, contributors[author] finds the inherited value
InheritedNames == {"constructor", "toString", "valueOf", "hasOwnProperty", "__proto__"}

\* the author names that are canonical array indices, with their values:
\* an object lists such keys first, in ascending numeric order
ArrayIndexNames == {"7", "10"}

ArrayIndexValue(name) == IF name = "7" THEN 7 ELSE 10

\* whether the forEach body reaches a files.add(...) for this commit
addsFiles(commit) ==
    IF commit.isMergeCommit
    THEN commit.mergeDetails.present /\ Len(commit.mergeDetails.changedFiles) > 0
    ELSE Len(commit.fileDetails) > 0

RECURSIVE foldContributors(_, _, _)
\* the contributors record after the forEach: keys is the insertion order of
\* the own property names, table maps each name to its entry.  For an
\* inherited name !contributors[author] is false, no own entry is created,
\* the counters of the inherited value are touched, and files.add throws a
\* TypeError (the inherited value has no files), which ends the forEach.
foldContributors(commits, keys, table) ==
    IF commits = <<>> THEN [keys |-> keys, table |-> table, threw |-> FALSE]
    ELSE LET commit == Head(commits)
             author == AuthorKey(commit)
             known  == author \in Range(keys)
             entry  == IF known THEN table[author] ELSE NewContributor
         IN  IF author \in InheritedNames
             THEN IF addsFiles(commit)
                  THEN [keys |-> keys, table |-> table, threw |-> TRUE]
                  ELSE foldContributors(Tail(commits), keys, table)
             ELSE foldContributors(Tail(commits),
                                   IF known THEN keys ELSE Append(keys, author),
                                   (author :> countCommit(entry, commit)) @@ table)

\* whether analyzeContributors throws instead of returning
analyzeContributorsThrows(commits) == foldContributors(commits, <<>>, <<>>).threw

RECURSIVE insertByIndex(_, _)
insertByIndex(sorted, name) ==
    IF sorted = <<>> THEN <<name>>
    ELSE IF ArrayIndexValue(name) < ArrayIndexValue(Head(sorted))
         THEN <<name>> \o sorted
         ELSE <<Head(sorted)>> \o insertByIndex(Tail(sorted), name)

RECURSIVE sortByIndex(_)
sortByIndex(names) ==
    IF names = <<>> THEN <<>>
    ELSE insertByIndex(sortByIndex(Tail(names)), Head(names))

\* the order in which Object.entries lists the own keys: the array indices
\* in ascending numeric order, then the other names in insertion order
ownKeysOrder(keys) ==
    LET isIndex(k) == k \in ArrayIndexNames
        isName(k)  == k \notin ArrayIndexNames
    IN  sortByIndex(SelectSeq(keys, isIndex)) \o SelectSeq(keys, isName)

\* Object.entries(contributors).map(...)
contributorsArray(commits) ==
    LET folded == foldContributors(commits, <<>>, <<>>)
        names  == ownKeysOrder(folded.keys)
    IN  [i \in 1..Len(names) |->
            LET stats == folded.table[names[i]]
            IN  [name |-> names[i],
                 totalCommits |-> stats.count,
                 directCommits |-> stats.directCommits,
                 mergeCommits |-> stats.mergeCommits,
                 additions |-> stats.additions,
                 deletions |-> stats.deletions,
                 filesChanged |-> Cardinality(stats.files)]]

RECURSIVE insertSorted(_, _)
\* x goes after every element that does not compare greater than it
insertSorted(sorted, x) ==
    IF sorted = <<>> THEN <<x>>
    ELSE IF x.totalCommits - Head(sorted).totalCommits > 0
         THEN <<x>> \o sorted
         ELSE <<Head(sorted)>> \o insertSorted(Tail(sorted), x)

RECURSIVE sortByTotalCommits(_)
\* Array.prototype.sort((a, b) => b.totalCommits - a.totalCommits): stable
sortByTotalCommits(arr) ==
    IF arr = <<>> THEN <<>>
    ELSE insertSorted(sortByTotalCommits(SubSeq(arr, 1, Len(arr) - 1)), arr[Len(arr)])

analyzeContributors(commits) == sortByTotalCommits(contributorsArray(commits))

(***************************************************************************)
(* The locals of POST computed before the stages (lines 159-174).          *)
(***************************************************************************)
\* a filter that also asks for provenance
mergeCommitsWithProvenance(processed) ==
    LET isMerge(c) == c.isMergeCommit /\ c.mergeDetails.present
    IN  SelectSeq(processed, isMerge)

mergeCommitsOf(processed) ==
    LET isMerge(c) == c.isMergeCommit
    IN  SelectSeq(processed, isMerge)

\* a filter that forgets the fileDetails.length > 0 test
directCommitsAnyFiles(processed) ==
    LET isDirect(c) == ~c.isMergeCommit
    IN  SelectSeq(processed, isDirect)

directCommitsOf(processed) ==
    LET isDirect(c) == ~c.isMergeCommit /\ Len(c.fileDetails) > 0
    IN  SelectSeq(processed, isDirect)

RECURSIVE sumAdditions(_)
sumAdditions(fileSeq) ==
    IF fileSeq = <<>> THEN 0 ELSE Head(fileSeq).additions + sumAdditions(Tail(fileSeq))

RECURSIVE sumDeletions(_)
sumDeletions(fileSeq) ==
    IF fileSeq = <<>> THEN 0 ELSE Head(fileSeq).deletions + sumDeletions(Tail(fileSeq))

\* new Set(processedCommits.flatMap(c => c.files)).size
totalFilesOf(processed) ==
    Cardinality(Range(Concat([i \in 1..Len(processed) |-> processed[i].files])))

\* processedCommits.reduce over commit.fileDetails.reduce of additions
totalAdditionsOf(processed) ==
    sumAdditions(Concat([i \in 1..Len(processed) |-> processed[i].fileDetails]))

totalDeletionsOf(processed) ==
    sumDeletions(Concat([i \in 1..Len(processed) |-> processed[i].fileDetails]))

(***************************************************************************)
(* The report and the prompts.  A part of the report is the statistics     *)
(* preamble, a section header, the text the model returned, or the fixed   *)
(* placeholder text of a stage.                                            *)
(***************************************************************************)
\* the merge stage placed before the direct stage
MergeBeforeDirect == <<"merge", "direct", "project", "recommendations">>

\* the stages with a text-generation call, in the order of the code
StageOrder == <<"direct", "merge", "project", "recommendations">>

Stages == Range(StageOrder)

\* "## ANALISE DETALHADA ...", "## ANALISE DE INTEGRACOES (MERGES)", ...
Header(stage) == [kind |-> "header", stage |-> stage]

\* response.choices[0]?.message?.content when it is a non-empty text
ModelText(stage) == [kind |-> "text", stage |-> stage]

\* "Nao foi possivel ... devido a limitacoes tecnicas.\n"
Placeholder(stage) == [kind |-> "placeholder", stage |-> stage]

\* lines 176-188: the statistics block and the top contributors
Preamble(processed, direct, merges, files, adds, dels, contribs) ==
    LET top == Take(contribs, TopContributors)
    IN  [kind |-> "preamble", stage |-> "stats",
         nCommits |-> Len(processed), nDirect |-> Len(direct),
         nMerges |-> Len(merges), nFiles |-> files,
         nAdditions |-> adds, nDeletions |-> dels,
         top |-> [i \in 1..Len(top) |->
                    [name |-> top[i].name, totalCommits |-> top[i].totalCommits,
                     directCommits |-> top[i].directCommits,
                     mergeCommits |-> top[i].mergeCommits]]]

\* "- filename (status, +additions, -deletions)" for each file
fileLines(fileSeq) ==
    [i \in 1..Len(fileSeq) |->
        [filename |-> fileSeq[i].filename, status |-> fileSeq[i].status,
         additions |-> fileSeq[i].additions, deletions |-> fileSeq[i].deletions]]

\* the "MUDANCAS EM filename" blocks of the first files that have a patch
patchBlocks(fileSeq) ==
    LET sample == Take(fileSeq, PatchSample)
        hasPatch(f) == f.patch # <<>>
        shown == SelectSeq(sample, hasPatch)
    IN  [i \in 1..Len(shown) |->
            [filename |-> shown[i].filename, patch |-> shown[i].patch]]

moreFiles(fileSeq) ==
    IF Len(fileSeq) > PatchSample THEN Len(fileSeq) - PatchSample ELSE 0

\* lines 193-221
directCommitsPrompt(direct) ==
    <<[kind |-> "instructions", stage |-> "direct"]>>
      \o [i \in 1..Len(direct) |->
            [kind |-> "commit", stage |-> "direct",
             message |-> direct[i].message, author |-> direct[i].author,
             files |-> fileLines(direct[i].fileDetails),
             patches |-> patchBlocks(direct[i].fileDetails),
             more |-> moreFiles(direct[i].fileDetails)]]

\* lines 242-276: a merge without provenance, or with an empty file list,
\* is described by the fixed text "Informacao nao disponivel"
mergeCommitsPrompt(merges) ==
    <<[kind |-> "instructions", stage |-> "merge"]>>
      \o [i \in 1..Len(merges) |->
            LET md == merges[i].mergeDetails
            IN  [kind |-> "commit", stage |-> "merge",
                 message |-> merges[i].message, author |-> merges[i].author,
                 totalKnown |-> md.present /\ md.totalCommits # 0,
                 totalCommits |-> md.totalCommits,
                 filesAvailable |-> md.present /\ Len(md.changedFiles) > 0,
                 files |-> fileLines(md.changedFiles),
                 patches |-> patchBlocks(md.changedFiles),
                 more |-> moreFiles(md.changedFiles)]]

\* lines 297-309: allFiles, in the insertion order of the Set
filesListOf(processed) ==
    Dedup(Concat([i \in 1..Len(processed) |->
        Filenames(processed[i].fileDetails)
          \o (IF processed[i].mergeDetails.present
              THEN Filenames(processed[i].mergeDetails.changedFiles)
              ELSE <<>>)]))

\* lines 327-350
projectAnalysisPrompt(processed) ==
    LET filesList == filesListOf(processed)
        recent == Take(processed, RecentCommits)
    IN  <<[kind |-> "instructions", stage |-> "project"],
          [kind |-> "files", stage |-> "project",
           files |-> Take(filesList, FileSample),
           more |-> IF Len(filesList) > FileSample
                    THEN Len(filesList) - FileSample ELSE 0],
          [kind |-> "recent", stage |-> "project",
           messages |-> [i \in 1..Len(recent) |->
                          [message |-> Head(recent[i].message),
                           author |-> recent[i].author]]]>>

\* lines 370-387: a system message and a fixed user message
recommendationsPrompt ==
    <<[kind |-> "system", stage |-> "recommendations"],
      [kind |-> "instructions", stage |-> "recommendations"]>>

PromptOf(stage, processed, direct, merges) ==
    CASE stage = "direct" -> directCommitsPrompt(direct)
      [] stage = "merge" -> mergeCommitsPrompt(merges)
      [] stage = "project" -> projectAnalysisPrompt(processed)
      [] stage = "recommendations" -> recommendationsPrompt

\* the conditions at lines 191 and 240; the last two stages always run
StageRuns(stage, direct, merges) ==
    CASE stage = "direct" -> Len(direct) > 0
      [] stage = "merge" -> Len(merges) > 0
      [] OTHER -> TRUE

(***************************************************************************)
(* The outcomes of one awaited openai.chat.completions.create call:        *)
(*   text       a response whose first choice carries a non-empty text     *)
(*   empty      a response whose choices list is empty, or whose first     *)
(*              choice carries no text: the code appends ""                *)
(*   nochoices  a response without a choices list: reading choices[0]      *)
(*              throws a TypeError after the header has been appended      *)
(*   throw      the call rejects (network error, quota, unparseable reply) *)
(***************************************************************************)
Outcomes == {"text", "empty", "nochoices", "throw"}

Failed(outcome) == outcome \in {"nochoices", "throw"}

\* the merge call left outside its try block
MergeCallUnguarded(stage) == stage # "merge"

\* each call sits in a try block of its own (lines 192, 241, 295, 369)
Guarded(stage) == TRUE

\* a catch block that appends the placeholder without the section header
CatchWithoutHeader(stage, outcome) ==
    CASE outcome = "text" -> <<[kind |-> "header", stage |-> stage],
                               [kind |-> "text", stage |-> stage]>>
      [] outcome = "empty" -> <<[kind |-> "header", stage |-> stage]>>
      [] outcome = "nochoices" -> <<[kind |-> "header", stage |-> stage],
                                    [kind |-> "placeholder", stage |-> stage]>>
      [] outcome = "throw" -> <<[kind |-> "placeholder", stage |-> stage]>>

\* what the try block and its catch append to combinedAnalysis
StageAppend(stage, outcome) ==
    CASE outcome = "text" -> <<Header(stage), ModelText(stage)>>
      [] outcome = "empty" -> <<Header(stage)>>
      [] outcome = "nochoices" -> <<Header(stage), Header(stage), Placeholder(stage)>>
      [] outcome = "throw" -> <<Header(stage), Placeholder(stage)>>

(***************************************************************************)
(* The state of one request to POST.                                       *)
(***************************************************************************)
VARIABLES
    body,              \* what req.json() is asked to parse
    pc,                \* "start", "stage", "await", "finish", "done"
    cur,               \* position in StageOrder of the stage at hand
    processedCommits,  \* locals of POST, <<>> or 0 until computed
    mergeCommits,
    directCommits,
    contributors,
    totalFiles,
    totalAdditions,
    totalDeletions,
    combinedAnalysis,  \* the report text accumulated so far
    calls,             \* the text-generation calls issued, oldest first
    response,          \* the NextResponse returned, status 0 until then
    \* the commits route (GET /api/commits)
    session,           \* what getServerSession returns and the URL carries
    getPc,             \* "idle", "start", "listing", "tasks", "done"
    listed,            \* commits.data: the page listCommits returned
    lookupTask,        \* the async callback of each listed commit
    completions,       \* the positions whose callback fulfilled, oldest first
    getResponse,       \* the NextResponse of GET, status 0 until then
    \* one application of truncatePatch
    patchArg,          \* the patch argument
    maxLinesArg,       \* the maxLines argument
    truncated,         \* the value returned, once the call has run
    \* the RepoDetails component
    selectedBranch,    \* useState("main")
    branches,          \* the options of the branch select
    branchesLoading,
    repoCommits,       \* the commits state: the fetch whose response it holds
    loading,
    repoError,         \* the error state is not null
    insight,           \* the insight state and the commit list it came from
    insightLoading,
    commitFetches,     \* the commit fetches in flight
    insightFetch,      \* the insight request in flight, if any
    fetchCount,        \* the commit fetches issued so far
    repoBranches       \* the branches the repository has on the server

postVars == <<body, pc, cur, processedCommits, mergeCommits, directCommits,
              contributors, totalFiles, totalAdditions, totalDeletions,
              combinedAnalysis, calls, response>>

commitsRouteVars == <<session, getPc, listed, lookupTask, completions, getResponse>>

truncateVars == <<patchArg, maxLinesArg, truncated>>

repoDetailsVars == <<selectedBranch, branches, branchesLoading, repoCommits,
                     loading, repoError, insight, insightLoading,
                     commitFetches, insightFetch, fetchCount, repoBranches>>

vars == <<postVars, commitsRouteVars, truncateVars, repoDetailsVars>>

\* GET has answered nothing yet
NoGetResponse == [status |-> 0, error |-> "", commits |-> <<>>]

\* no request to the commits route is under way
CommitsRouteIdle ==
    /\ session = [authorized |-> FALSE, hasParams |-> FALSE]
    /\ getPc = "idle"
    /\ listed = <<>>
    /\ lookupTask = <<>>
    /\ completions = <<>>
    /\ getResponse = NoGetResponse

\* truncatePatch is not being applied
TruncateIdle ==
    /\ patchArg = [defined |-> FALSE, lines |-> <<>>]
    /\ maxLinesArg = 0
    /\ truncated = [returned |-> FALSE, lines |-> <<>>]

\* the insight state is null
NoInsight == [present |-> FALSE, from |-> 0]

\* no insight request is in flight
NoInsightFetch == [active |-> FALSE, from |-> 0]

\* the RepoDetails component is not mounted
RepoDetailsIdle ==
    /\ selectedBranch = ""
    /\ branches = <<>>
    /\ branchesLoading = FALSE
    /\ repoCommits = 0
    /\ loading = FALSE
    /\ repoError = FALSE
    /\ insight = NoInsight
    /\ insightLoading = FALSE
    /\ commitFetches = {}
    /\ insightFetch = NoInsightFetch
    /\ fetchCount = 0
    /\ repoBranches = <<>>

locals == <<processedCommits, mergeCommits, directCommits, contributors,
            totalFiles, totalAdditions, totalDeletions>>

NoStats ==
    [commits |-> 0, directCommits |-> 0, mergeCommits |-> 0, totalFiles |-> 0,
     totalAdditions |-> 0, totalDeletions |-> 0, contributors |-> <<>>]

NoResponse ==
    [status |-> 0, success |-> FALSE, error |-> "", hasMessage |-> FALSE,
     insight |-> <<>>, stats |-> NoStats]

\* line 153
InvalidCommitsResponse ==
    [NoResponse EXCEPT !.status = 400, !.error = "Invalid commits data"]

\* lines 416-421: the outer catch
FailureResponse ==
    [NoResponse EXCEPT !.status = 500, !.error = "Failed to generate insights",
                       !.hasMessage = TRUE]

\* lines 401-415
SuccessResponse ==
    [NoResponse EXCEPT
        !.status = 200, !.success = TRUE, !.insight = combinedAnalysis,
        !.stats = [commits |-> Len(processedCommits),
                   directCommits |-> Len(directCommits),
                   mergeCommits |-> Len(mergeCommits),
                   totalFiles |-> totalFiles,
                   totalAdditions |-> totalAdditions,
                   totalDeletions |-> totalDeletions,
                   contributors |-> contributors]]

Init ==
    /\ body \in Bodies
    /\ pc = "start"
    /\ cur = 0
    /\ processedCommits = <<>>
    /\ mergeCommits = <<>>
    /\ directCommits = <<>>
    /\ contributors = <<>>
    /\ totalFiles = 0
    /\ totalAdditions = 0
    /\ totalDeletions = 0
    /\ combinedAnalysis = <<>>
    /\ calls = <<>>
    /\ response = NoResponse
    /\ CommitsRouteIdle
    /\ TruncateIdle
    /\ RepoDetailsIdle

\* req.json() throws on text that is no JSON (line 149)
JsonThrows == body.json = "invalid"

\* const { commits } = body throws on null (line 150)
DestructuringThrows == body.json = "null"

\* the commits local after line 150
CommitsLocal ==
    IF body.json = "object" THEN body.commits
    ELSE [type |-> "undefined", items |-> <<>>]

\* !commits || !Array.isArray(commits) || commits.length === 0 (line 152)
InvalidCommits(commits) ==
    \/ commits.type \in {"undefined", "null"}
    \/ commits.type # "array"
    \/ Len(commits.items) = 0

\* POST from its entry to the first stage: lines 148-188
POST_Entry ==
    /\ pc = "start"
    /\ IF JsonThrows \/ DestructuringThrows
       THEN /\ response' = FailureResponse
            /\ pc' = "done"
            /\ UNCHANGED <<cur, locals, combinedAnalysis>>
       ELSE IF InvalidCommits(CommitsLocal)
       THEN /\ response' = InvalidCommitsResponse
            /\ pc' = "done"
            /\ UNCHANGED <<cur, locals, combinedAnalysis>>
       ELSE IF analyzeContributorsThrows(processCommitsForAnalysis(CommitsLocal.items))
       THEN \* the TypeError of line 117 or 127 reaches the outer catch
            /\ response' = FailureResponse
            /\ pc' = "done"
            /\ UNCHANGED <<cur, locals, combinedAnalysis>>
       ELSE LET processed == processCommitsForAnalysis(CommitsLocal.items)
                merges    == mergeCommitsOf(processed)
                direct    == directCommitsOf(processed)
                contribs  == analyzeContributors(processed)
                files     == totalFilesOf(processed)
                adds      == totalAdditionsOf(processed)
                dels      == totalDeletionsOf(processed)
            IN  /\ processedCommits' = processed
                /\ mergeCommits' = merges
                /\ directCommits' = direct
                /\ contributors' = contribs
                /\ totalFiles' = files
                /\ totalAdditions' = adds
                /\ totalDeletions' = dels
                /\ combinedAnalysis' =
                       <<Preamble(processed, direct, merges, files, adds, dels, contribs)>>
                /\ pc' = "stage"
                /\ cur' = 1
                /\ UNCHANGED response
    /\ UNCHANGED <<body, calls, commitsRouteVars, truncateVars, repoDetailsVars>>

\* where POST goes once the stage at position cur is over
Advance ==
    IF cur < Len(StageOrder)
    THEN pc' = "stage" /\ cur' = cur + 1
    ELSE pc' = "finish" /\ cur' = cur

\* a stage whose condition is false is passed over (lines 191, 240)
SkipStage ==
    /\ pc = "stage"
    /\ ~StageRuns(StageOrder[cur], directCommits, mergeCommits)
    /\ Advance
    /\ UNCHANGED <<body, locals, combinedAnalysis, calls, response>>
    /\ UNCHANGED <<commitsRouteVars, truncateVars, repoDetailsVars>>

\* the stage builds its prompt and awaits openai.chat.completions.create
IssueCall ==
    /\ pc = "stage"
    /\ StageRuns(StageOrder[cur], directCommits, mergeCommits)
    /\ calls' = Append(calls,
           [stage |-> StageOrder[cur],
            prompt |-> PromptOf(StageOrder[cur], processedCommits,
                                directCommits, mergeCommits),
            report |-> combinedAnalysis,
            outcome |-> "pending"])
    /\ pc' = "await"
    /\ UNCHANGED <<body, cur, locals, combinedAnalysis, response>>
    /\ UNCHANGED <<commitsRouteVars, truncateVars, repoDetailsVars>>

\* the awaited call settles and the rest of the try block, or its catch, runs
CompleteCall ==
    /\ pc = "await"
    /\ \E outcome \in Outcomes :
        /\ calls' = [calls EXCEPT ![Len(calls)].outcome = outcome]
        /\ IF Failed(outcome) /\ ~Guarded(StageOrder[cur])
           THEN \* the error reaches the outer catch (line 416)
                /\ response' = FailureResponse
                /\ pc' = "done"
                /\ UNCHANGED <<cur, combinedAnalysis>>
           ELSE /\ combinedAnalysis' =
                       combinedAnalysis \o StageAppend(StageOrder[cur], outcome)
                /\ Advance
                /\ UNCHANGED response
    /\ UNCHANGED <<body, locals, commitsRouteVars, truncateVars, repoDetailsVars>>

\* lines 400-415
POST_Return ==
    /\ pc = "finish"
    /\ response' = SuccessResponse
    /\ pc' = "done"
    /\ UNCHANGED <<body, cur, locals, combinedAnalysis, calls>>
    /\ UNCHANGED <<commitsRouteVars, truncateVars, repoDetailsVars>>

Next ==
    \/ POST_Entry
    \/ SkipStage
    \/ IssueCall
    \/ CompleteCall
    \/ POST_Return

Spec == Init /\ [][Next]_vars

\* no request to the insights route is under way
PostIdle ==
    /\ body = [json |-> "null", commits |-> [type |-> "undefined", items |-> <<>>]]
    /\ pc = "idle"
    /\ cur = 0
    /\ processedCommits = <<>>
    /\ mergeCommits = <<>>
    /\ directCommits = <<>>
    /\ contributors = <<>>
    /\ totalFiles = 0
    /\ totalAdditions = 0
    /\ totalDeletions = 0
    /\ combinedAnalysis = <<>>
    /\ calls = <<>>
    /\ response = NoResponse

(***************************************************************************)
(* The commits route: GET /api/commits.                                    *)
(*                                                                         *)
(* A raw commit is an element of the page listCommits returns: its sha,    *)
(* the shas of its parents, its message, the login of the linked account   *)
(* and the author name of the commit metadata ("" when absent).            *)
(***************************************************************************)
\* longest page listCommits returns in the model (per_page is 20)
MaxPage == 2

RawCommit(sha, parents, message, login, name) ==
    [sha |-> sha, parents |-> parents, message |-> message,
     login |-> login, name |-> name]

\* a commit with one parent, a merge of two parents, a root commit whose
\* message reads like a merge, and a merge of three parents whose message
\* does not
RawPool ==
    { RawCommit("c1", <<"p1">>, <<"feat: a">>, "alice", "Alice A"),
      RawCommit("c2", <<"p1", "p2">>, <<"Merge branch x">>, "", "Bob B"),
      RawCommit("c3", <<>>, <<"Merge pull request #1">>, "", ""),
      RawCommit("c4", <<"p1", "p2", "p3">>, <<"sync">>, "bob", "") }

Pages == SeqsUpTo(RawPool, MaxPage)

\* what octokit.repos.getCommit settles with: a rejection, or data whose
\* files are absent or empty, or one file
DetailOutcomes ==
    {[ok |-> FALSE, files |-> <<>>],
     [ok |-> TRUE, files |-> <<>>],
     [ok |-> TRUE, files |-> <<FileA>>]}

\* what octokit.repos.compareCommits settles with
ComparisonOutcomes ==
    {[ok |-> FALSE, total_commits |-> 0, files |-> <<>>],
     [ok |-> TRUE, total_commits |-> 1, files |-> <<>>],
     [ok |-> TRUE, total_commits |-> 3, files |-> <<FileB>>]}

\* a lookup that has not settled
Pending == [ok |-> FALSE, files |-> <<>>]
NoComparison == [ok |-> FALSE, total_commits |-> 0, files |-> <<>>]

\* a classification by the wording of the message
isMergeByMessage(raw) ==
    Head(raw.message) \in {"Merge branch x", "Merge pull request #1"}

\* line 43: commit.parents && commit.parents.length > 1
isMergeCommitOf(raw) == Len(raw.parents) > 1

\* a comparison asked for every commit that has a parent
comparesAnyParent(raw) == Len(raw.parents) >= 1

\* line 47: isMergeCommit && commit.parents.length >= 2
needsComparison(raw) == isMergeCommitOf(raw) /\ Len(raw.parents) >= 2

\* commit.parents[k - 1].sha
parentSha(raw, k) == IF k <= Len(raw.parents) THEN raw.parents[k] ELSE ""

\* line 46: let mergeDetails = null
NoProvenance ==
    [present |-> FALSE, baseSha |-> "", headSha |-> "",
     totalCommits |-> 0, changedFiles |-> <<>>]

\* lines 57-68
provenanceOf(raw, comparison) ==
    [present |-> TRUE, baseSha |-> parentSha(raw, 1), headSha |-> parentSha(raw, 2),
     totalCommits |-> comparison.total_commits,
     changedFiles |-> comparison.files]

\* an author resolved from the commit metadata before the linked account
nameBeforeLogin(raw) ==
    IF raw.name # "" THEN raw.name
    ELSE IF raw.login # "" THEN raw.login
    ELSE "Unknown"

\* line 86: commit.author?.login || commit.commit?.author?.name || "Unknown"
authorOf(raw) ==
    IF raw.login # "" THEN raw.login
    ELSE IF raw.name # "" THEN raw.name
    ELSE "Unknown"

\* lines 74-92: the object the callback returns
normalizedCommit(raw, detail, mergeDetails) ==
    [sha |-> raw.sha,
     message |-> raw.message,
     author |-> authorOf(raw),
     isMergeCommit |-> isMergeCommitOf(raw),
     mergeDetails |-> mergeDetails,
     fileDetails |-> detail.files,
     files |-> Filenames(detail.files)]

NoCommit == normalizedCommit(RawCommit("", <<>>, <<"">>, "", ""), Pending, NoProvenance)

\* the callback of one listed commit right after commits.data.map started it:
\* it awaits getCommit (line 36)
startedTask ==
    [at |-> "detail", lookups |-> 1, compared |-> FALSE,
     detail |-> Pending, comparison |-> NoComparison, value |-> NoCommit]

\* a callback in which a rejected getCommit is swallowed
detailFailureSwallowed(raw, task, outcome) ==
    IF needsComparison(raw) /\ outcome.ok
    THEN [task EXCEPT !.at = "compare", !.detail = outcome,
                      !.lookups = @ + 1, !.compared = TRUE]
    ELSE [task EXCEPT !.at = "fulfilled", !.detail = outcome,
                      !.value = normalizedCommit(raw, outcome, NoProvenance)]

\* the callback from the settling of getCommit to its next await or its end
\* (lines 36-47, and 74-92 for a commit that needs no comparison)
afterDetail(raw, task, outcome) ==
    IF ~outcome.ok
    THEN [task EXCEPT !.at = "rejected", !.detail = outcome]
    ELSE IF needsComparison(raw)
    THEN [task EXCEPT !.at = "compare", !.detail = outcome,
                      !.lookups = @ + 1, !.compared = TRUE]
    ELSE [task EXCEPT !.at = "fulfilled", !.detail = outcome,
                      !.value = normalizedCommit(raw, outcome, NoProvenance)]

\* a callback in which a rejected compareCommits is not caught
comparisonFailureRejects(raw, task, outcome) ==
    IF outcome.ok
    THEN [task EXCEPT !.at = "fulfilled", !.comparison = outcome,
                      !.value = normalizedCommit(raw, task.detail,
                                                 provenanceOf(raw, outcome))]
    ELSE [task EXCEPT !.at = "rejected", !.comparison = outcome]

\* the callback from the settling of compareCommits to its end (lines 48-92):
\* the catch of line 69 leaves mergeDetails null
afterComparison(raw, task, outcome) ==
    [task EXCEPT
        !.at = "fulfilled",
        !.comparison = outcome,
        !.value = normalizedCommit(raw, task.detail,
                      IF outcome.ok THEN provenanceOf(raw, outcome)
                      ELSE NoProvenance)]

\* an array filled in the order in which the callbacks fulfil
inCompletionOrder(tasks, order) ==
    [k \in 1..Len(order) |-> tasks[order[k]].value]

\* the array Promise.all resolves with: the value of each callback at the
\* position of its commit
commitsWithFiles(tasks, order) ==
    [i \in 1..Len(tasks) |-> tasks[i].value]

AllFulfilled(tasks) == \A i \in 1..Len(tasks) : tasks[i].at = "fulfilled"

\* what the settling of one callback does to the request: Promise.all
\* rejects with the first rejection (line 97), resolves when every callback
\* has fulfilled (line 96); a response already given stays
GetResponseAfter(tasks, order) ==
    IF getResponse.status # 0 THEN getResponse
    ELSE IF \E i \in 1..Len(tasks) : tasks[i].at = "rejected"
    THEN [NoGetResponse EXCEPT !.status = 500, !.error = "Failed to fetch commits"]
    ELSE IF AllFulfilled(tasks)
    THEN [NoGetResponse EXCEPT !.status = 200,
                               !.commits = commitsWithFiles(tasks, order)]
    ELSE getResponse

InitCommits ==
    /\ PostIdle
    /\ TruncateIdle
    /\ RepoDetailsIdle
    /\ session \in [authorized : BOOLEAN, hasParams : BOOLEAN]
    /\ getPc = "start"
    /\ listed = <<>>
    /\ lookupTask = <<>>
    /\ completions = <<>>
    /\ getResponse = NoGetResponse

\* GET from its entry to the await of listCommits (lines 7-31)
GET_Entry ==
    /\ getPc = "start"
    /\ IF ~session.authorized
       THEN /\ getResponse' = [NoGetResponse EXCEPT !.status = 401,
                                                    !.error = "Unauthorized"]
            /\ getPc' = "done"
       ELSE IF ~session.hasParams
       THEN /\ getResponse' =
                  [NoGetResponse EXCEPT
                      !.status = 400,
                      !.error = "Owner and repo parameters are required"]
            /\ getPc' = "done"
       ELSE /\ getPc' = "listing"
            /\ UNCHANGED getResponse
    /\ UNCHANGED <<session, listed, lookupTask, completions>>
    /\ UNCHANGED <<postVars, truncateVars, repoDetailsVars>>

\* listCommits rejects: the catch of line 97
ListFails ==
    /\ getPc = "listing"
    /\ getResponse' = [NoGetResponse EXCEPT !.status = 500,
                                            !.error = "Failed to fetch commits"]
    /\ getPc' = "done"
    /\ UNCHANGED <<session, listed, lookupTask, completions>>
    /\ UNCHANGED <<postVars, truncateVars, repoDetailsVars>>

\* listCommits returns a page: commits.data.map starts the callback of every
\* commit, each of which issues its getCommit before any lookup settles
ListReturns ==
    /\ getPc = "listing"
    /\ \E page \in Pages :
        /\ listed' = page
        /\ lookupTask' = [i \in 1..Len(page) |-> startedTask]
        /\ IF page = <<>>
           THEN /\ getResponse' = [NoGetResponse EXCEPT !.status = 200]
                /\ getPc' = "done"
           ELSE /\ getPc' = "tasks"
                /\ UNCHANGED getResponse
    /\ UNCHANGED <<session, completions>>
    /\ UNCHANGED <<postVars, truncateVars, repoDetailsVars>>

\* one callback settles a lookup; the request answers if Promise.all settles
Settle(i, task) ==
    LET tasks == [lookupTask EXCEPT ![i] = task]
        order == IF task.at = "fulfilled" THEN Append(completions, i)
                 ELSE completions
    IN  /\ lookupTask' = tasks
        /\ completions' = order
        /\ getResponse' = GetResponseAfter(tasks, order)
        /\ getPc' = IF GetResponseAfter(tasks, order).status # 0
                    THEN "done" ELSE getPc
        /\ UNCHANGED <<session, listed>>
        /\ UNCHANGED <<postVars, truncateVars, repoDetailsVars>>

\* the getCommit of the commit at position i settles
DetailSettles ==
    \E i \in 1..Len(lookupTask) :
        /\ lookupTask[i].at = "detail"
        /\ \E outcome \in DetailOutcomes :
              Settle(i, afterDetail(listed[i], lookupTask[i], outcome))

\* the compareCommits of the merge at position i settles
ComparisonSettles ==
    \E i \in 1..Len(lookupTask) :
        /\ lookupTask[i].at = "compare"
        /\ \E outcome \in ComparisonOutcomes :
              Settle(i, afterComparison(listed[i], lookupTask[i], outcome))

NextCommits ==
    \/ GET_Entry
    \/ ListFails
    \/ ListReturns
    \/ DetailSettles
    \/ ComparisonSettles

SpecCommits == InitCommits /\ [][NextCommits]_vars

(***************************************************************************)
(* Vocabulary of the properties.                                           *)
(***************************************************************************)
\* the request carries a non-empty array of commits
ValidBatch ==
    /\ body.json = "object"
    /\ body.commits.type = "array"
    /\ Len(body.commits.items) > 0

\* the commit batch as the client sent it
Batch == body.commits.items

Answered == pc = "done"

Succeeded == pc = "done" /\ response.status = 200

\* the position of a report part in the order the specification fixes
Rank(stage) ==
    CASE stage = "stats" -> 0
      [] stage = "direct" -> 1
      [] stage = "merge" -> 2
      [] stage = "project" -> 3
      [] stage = "recommendations" -> 4

CalledStages == {calls[i].stage : i \in 1..Len(calls)}

HasSection(text, stage) == Header(stage) \in Range(text)

\* the stages whose condition holds of the input batch
ExpectedStages ==
    {"project", "recommendations"}
      \cup (IF \E i \in 1..Len(Batch) :
                  ~Batch[i].isMergeCommit /\ Len(Batch[i].fileDetails) > 0
            THEN {"direct"} ELSE {})
      \cup (IF \E i \in 1..Len(Batch) : Batch[i].isMergeCommit
            THEN {"merge"} ELSE {})

(***************************************************************************)
(* C1.  For a valid batch, whatever the text-generation calls do, no error  *)
(* response is produced, and once POST has answered the answer is a        *)
(* success carrying insight and stats, every stage whose condition holds   *)
(* having issued its call: a failed call skips no later stage.             *)
(***************************************************************************)
C1_StageFailureNeverAborts ==
    ValidBatch =>
        /\ response.status \in {0, 200}
        /\ Answered =>
            /\ response.status = 200
            /\ response.success
            /\ response.insight = combinedAnalysis
            /\ response.insight # <<>>
            /\ response.stats.commits = Len(Batch)
            /\ CalledStages = ExpectedStages
            /\ \A s \in ExpectedStages : HasSection(response.insight, s)

\* all four stages ran, every call failed, and POST answered with success
C1_Witness ==
    /\ Succeeded
    /\ Len(calls) = 4
    /\ \A i \in 1..Len(calls) : Failed(calls[i].outcome)
    /\ \E i \in 1..Len(calls) : calls[i].outcome = "throw"
    /\ \E i \in 1..Len(calls) : calls[i].outcome = "nochoices"

(***************************************************************************)
(* C2.  The calls are issued one after another in the order direct, merge, *)
(* project, recommendations: when a call is issued every earlier call has  *)
(* settled and its section is already in the report, and the parts of the  *)
(* report follow that order, after the statistics preamble.                *)
(***************************************************************************)
C2_StagesSequentialInOrder ==
    /\ \A i \in 1..Len(calls) : \A j \in 1..Len(calls) :
          i < j =>
            /\ calls[i].outcome # "pending"
            /\ Rank(calls[i].stage) < Rank(calls[j].stage)
            /\ HasSection(calls[j].report, calls[i].stage)
    /\ \A i \in 1..Len(combinedAnalysis) : \A j \in 1..Len(combinedAnalysis) :
          i < j => Rank(combinedAnalysis[i].stage) <= Rank(combinedAnalysis[j].stage)
    /\ combinedAnalysis # <<>> => combinedAnalysis[1].kind = "preamble"
    /\ Succeeded => response.insight = combinedAnalysis

\* a request whose four stages all ran and were answered
C2_Witness ==
    /\ Succeeded
    /\ Len(calls) = 4
    /\ \A s \in Stages : HasSection(response.insight, s)

(***************************************************************************)
(* C3.  Every parseable JSON body without a non-empty commits array is     *)
(* answered with status 400, with no pre-processing, stage or call.        *)
(***************************************************************************)
C3_InvalidBatchAnswers400 ==
    (Answered /\ body.json # "invalid" /\ ~ValidBatch) =>
        /\ response.status = 400
        /\ calls = <<>>
        /\ processedCommits = <<>>
        /\ combinedAnalysis = <<>>

(***************************************************************************)
(* C4.  When the call of a stage fails, the report holds that stage's      *)
(* header directly followed by that stage's placeholder, and no text       *)
(* generated by the model for that stage.                                  *)
(***************************************************************************)
C4_FailedStageEmitsPlaceholder ==
    \A i \in 1..Len(calls) :
        Failed(calls[i].outcome) =>
            LET s == calls[i].stage
            IN  /\ Contains(combinedAnalysis, <<Header(s), Placeholder(s)>>)
                /\ ModelText(s) \notin Range(combinedAnalysis)
                /\ Succeeded =>
                     /\ Contains(response.insight, <<Header(s), Placeholder(s)>>)
                     /\ ModelText(s) \notin Range(response.insight)

\* an answered request in which one call rejected, one returned a response
\* without choices, and one returned text
C4_Witness ==
    /\ Succeeded
    /\ \E i \in 1..Len(calls) : calls[i].outcome = "throw"
    /\ \E i \in 1..Len(calls) : calls[i].outcome = "nochoices"
    /\ \E i \in 1..Len(calls) : calls[i].outcome = "text"

(***************************************************************************)
(* C5.  The prompt of the recommendations call contains the report text    *)
(* accumulated by the earlier stages.                                      *)
(***************************************************************************)
C5_RecommendationsPromptCarriesReport ==
    \A i \in 1..Len(calls) :
        calls[i].stage = "recommendations" =>
            \A k \in 1..Len(calls[i].report) :
                calls[i].report[k] \in Range(calls[i].prompt)

(***************************************************************************)
(* C6.  The report of a valid batch has the direct section iff the batch   *)
(* has a non-merge commit with a file change, the merge section iff it has *)
(* a merge commit, and always the project and recommendations sections.    *)
(***************************************************************************)
C6_SectionsPresentIffCommitsExist ==
    Succeeded =>
        /\ HasSection(response.insight, "direct") <=>
              \E i \in 1..Len(Batch) :
                  ~Batch[i].isMergeCommit /\ Len(Batch[i].fileDetails) > 0
        /\ HasSection(response.insight, "merge") <=>
              \E i \in 1..Len(Batch) : Batch[i].isMergeCommit
        /\ HasSection(response.insight, "project")
        /\ HasSection(response.insight, "recommendations")

\* a batch whose only non-merge commits have no file, next to a merge
C6_Witness ==
    /\ Succeeded
    /\ \E i \in 1..Len(Batch) : ~Batch[i].isMergeCommit
    /\ \E i \in 1..Len(Batch) : Batch[i].isMergeCommit
    /\ ~HasSection(response.insight, "direct")
    /\ HasSection(response.insight, "merge")

(***************************************************************************)
(* C7.  As stated: for a batch of one merge commit without provenance the  *)
(* answer is a success with stats.mergeCommits = 1 and the merge section   *)
(* of the report contains the fixed placeholder text.                      *)
(***************************************************************************)
LoneMergeWithoutProvenance ==
    /\ ValidBatch
    /\ Len(Batch) = 1
    /\ Batch[1].isMergeCommit
    /\ ~Batch[1].mergeDetails.present

C7_AbsentProvenanceYieldsPlaceholder ==
    (Answered /\ LoneMergeWithoutProvenance) =>
        /\ response.status = 200
        /\ response.stats.mergeCommits = 1
        /\ Contains(response.insight, <<Header("merge"), Placeholder("merge")>>)

(***************************************************************************)
(* C7, amended.  For such a batch the answer is a success with             *)
(* stats.mergeCommits = 1; the merge stage issues its call, its prompt      *)
(* carrying the fixed "not available" text in place of the file list and   *)
(* of the merged-commit count; and the merge section holds the placeholder *)
(* exactly when that call fails, the model's text exactly when the call    *)
(* returned one.                                                           *)
(***************************************************************************)
C7_AbsentProvenanceDegradesPrompt ==
    (Answered /\ LoneMergeWithoutProvenance) =>
        /\ response.status = 200
        /\ response.stats.mergeCommits = 1
        /\ HasSection(response.insight, "merge")
        /\ \E i \in 1..Len(calls) :
              /\ calls[i].stage = "merge"
              /\ Len(calls[i].prompt) = 2
              /\ ~calls[i].prompt[2].filesAvailable
              /\ ~calls[i].prompt[2].totalKnown
              /\ Placeholder("merge") \in Range(response.insight)
                    <=> Failed(calls[i].outcome)
              /\ ModelText("merge") \in Range(response.insight)
                    <=> calls[i].outcome = "text"

\* the lone merge without provenance, its call answered with text
C7_Witness ==
    /\ Succeeded
    /\ LoneMergeWithoutProvenance
    /\ \E i \in 1..Len(calls) : calls[i].stage = "merge" /\ calls[i].outcome = "text"
    /\ Placeholder("merge") \notin Range(response.insight)

(***************************************************************************)
(* C8.  The statistics of the answer equal those computed from the batch   *)
(* as sent, before the cap of five files and the patch truncation: the     *)
(* line totals and every contributor's additions, deletions, filesChanged. *)
(***************************************************************************)
C8_PreprocessingChangesNoStatistic ==
    Succeeded =>
        /\ response.stats.totalAdditions = totalAdditionsOf(Batch)
        /\ response.stats.totalDeletions = totalDeletionsOf(Batch)
        /\ LET full == analyzeContributors(Batch)
               got  == response.stats.contributors
           IN  /\ Len(got) = Len(full)
               /\ \A i \in 1..Len(got) :
                     \E j \in 1..Len(full) :
                         /\ full[j].name = got[i].name
                         /\ full[j].additions = got[i].additions
                         /\ full[j].deletions = got[i].deletions
                         /\ full[j].filesChanged = got[i].filesChanged

(***************************************************************************)
(* C9.  stats.totalFiles is the number of distinct filenames among the     *)
(* file changes of the direct commits and the changedFiles of the          *)
(* provenance of the merge commits.                                        *)
(***************************************************************************)
DirectAndMergeFilenames ==
    UNION {IF Batch[i].isMergeCommit
           THEN (IF Batch[i].mergeDetails.present
                 THEN Range(Filenames(Batch[i].mergeDetails.changedFiles))
                 ELSE {})
           ELSE Range(Filenames(Batch[i].fileDetails)) : i \in 1..Len(Batch)}

C9_TotalFilesIsUnionOfDirectAndMergeFiles ==
    Succeeded => response.stats.totalFiles = Cardinality(DirectAndMergeFilenames)

(***************************************************************************)
(* C10.  stats.totalAdditions and stats.totalDeletions are the sums over   *)
(* the file changes of the non-merge commits only (stated here for the     *)
(* batches in which no commit has more files than the cap, so that the     *)
(* pre-processing drops nothing).                                          *)
(***************************************************************************)
DirectFileChanges ==
    Concat([i \in 1..Len(Batch) |->
              IF Batch[i].isMergeCommit THEN <<>> ELSE Batch[i].fileDetails])

NothingCapped == \A i \in 1..Len(Batch) : Len(Batch[i].fileDetails) <= FileCap

C10_LineTotalsCountDirectCommitsOnly ==
    (Succeeded /\ NothingCapped) =>
        /\ response.stats.totalAdditions = sumAdditions(DirectFileChanges)
        /\ response.stats.totalDeletions = sumDeletions(DirectFileChanges)

(***************************************************************************)
(* Vocabulary of the properties of analyzeContributors.  POST applies it   *)
(* to the pre-processed batch; contributors holds what it returned.        *)
(***************************************************************************)
\* POST has gone past line 164 with the result of analyzeContributors
Aggregated == pc # "start" /\ processedCommits # <<>>

\* the batch analyzeContributors is given
AnalyzedBatch == processCommitsForAnalysis(Batch)

CommitsOfAuthor(commits, author) ==
    LET mine(c) == AuthorKey(c) = author
    IN  SelectSeq(commits, mine)

\* the file changes the aggregator is said to draw from one commit
FileSource(commit) ==
    IF commit.isMergeCommit
    THEN (IF commit.mergeDetails.present
          THEN commit.mergeDetails.changedFiles ELSE <<>>)
    ELSE commit.fileDetails

\* the entry of an author as the sum of the shares of that author's commits
ExpectedEntry(commits, author) ==
    LET mine   == CommitsOfAuthor(commits, author)
        merged(c) == c.isMergeCommit
        files  == Concat([i \in 1..Len(mine) |-> FileSource(mine[i])])
    IN  [name |-> author,
         totalCommits |-> Len(mine),
         directCommits |-> Len(mine) - Len(SelectSeq(mine, merged)),
         mergeCommits |-> Len(SelectSeq(mine, merged)),
         additions |-> sumAdditions(files),
         deletions |-> sumDeletions(files),
         filesChanged |-> Cardinality(Range(Filenames(files)))]

\* the position in the batch of the first commit of an author
FirstCommitOf(commits, author) ==
    CHOOSE i \in 1..Len(commits) :
        /\ AuthorKey(commits[i]) = author
        /\ \A j \in 1..(i - 1) : AuthorKey(commits[j]) # author

(***************************************************************************)
(* C11.  Every entry returned by analyzeContributors has                   *)
(* totalCommits = directCommits + mergeCommits.                            *)
(***************************************************************************)
C11_TotalIsDirectPlusMerge ==
    \A i \in 1..Len(contributors) :
        contributors[i].totalCommits =
            contributors[i].directCommits + contributors[i].mergeCommits

\* an author with a direct commit and a merge commit in the same batch
C11_Witness ==
    /\ Aggregated
    /\ \E i \in 1..Len(contributors) :
          /\ contributors[i].directCommits > 0
          /\ contributors[i].mergeCommits > 0

(***************************************************************************)
(* C12.  The returned sequence is in descending order of totalCommits and  *)
(* authors with equal totalCommits appear in the order in which their      *)
(* first commits are met in the batch, whatever the author names are.      *)
(***************************************************************************)
C12_SortedDescendingTiesInEncounterOrder ==
    Aggregated =>
        \A i \in 1..Len(contributors) : \A j \in 1..Len(contributors) :
            i < j =>
                /\ contributors[i].totalCommits >= contributors[j].totalCommits
                /\ contributors[i].totalCommits = contributors[j].totalCommits
                     => FirstCommitOf(processedCommits, contributors[i].name)
                          < FirstCommitOf(processedCommits, contributors[j].name)

(***************************************************************************)
(* C13.  Every commit is accounted for in the entry of its own author and  *)
(* in no other: the entry of each author of the batch is the sum of the    *)
(* shares of that author's commits, a direct commit sharing its            *)
(* fileDetails, a merge with provenance its changedFiles, a merge without  *)
(* provenance one merge commit and no file.                                *)
(***************************************************************************)
C13_CommitAddsToItsAuthorsEntry ==
    (ValidBatch /\ pc # "start") =>
        \A k \in 1..Len(AnalyzedBatch) :
            \E i \in 1..Len(contributors) :
                contributors[i] = ExpectedEntry(AnalyzedBatch, AuthorKey(AnalyzedBatch[k]))

\* the same accounting, for the entries that analyzeContributors returns
C13_ReturnedEntriesAreSums ==
    Aggregated =>
        \A i \in 1..Len(contributors) :
            contributors[i] = ExpectedEntry(processedCommits, contributors[i].name)

(***************************************************************************)
(* truncatePatch on its own: one call on a patch and a budget.             *)
(***************************************************************************)
\* longest patch given to the call, in lines
MaxPatchLines == 4
\* largest budget given explicitly
MaxBudget == 3

\* the lines a patch is written with
PatchLines == {1, 2}

\* file.patch: absent, or a text ("" is the text of no lines)
PatchArgs ==
    {[defined |-> FALSE, lines |-> <<>>]}
        \cup [defined : {TRUE}, lines : SeqsUpTo(PatchLines, MaxPatchLines)]

\* maxLines: explicit, or the default of line 35
Budgets == 0..MaxBudget \cup {DefaultMaxLines}

InitTruncate ==
    /\ PostIdle
    /\ CommitsRouteIdle
    /\ RepoDetailsIdle
    /\ patchArg \in PatchArgs
    /\ maxLinesArg \in Budgets
    /\ truncated = [returned |-> FALSE, lines |-> <<>>]

\* the call truncatePatch(patch, maxLines); an absent patch is falsy as the
\* empty string is (line 36)
Call_truncatePatch ==
    /\ ~truncated.returned
    /\ truncated' = [returned |-> TRUE,
                     lines |-> truncatePatch(patchArg.lines, maxLinesArg)]
    /\ UNCHANGED <<patchArg, maxLinesArg>>
    /\ UNCHANGED <<postVars, commitsRouteVars, repoDetailsVars>>

NextTruncate == Call_truncatePatch

SpecTruncate == InitTruncate /\ [][NextTruncate]_vars

(***************************************************************************)
(* The RepoDetails component: its state, its two effects and               *)
(* generateInsight.  A commit fetch is known by the number under which it  *)
(* was issued; the commits state holds the number of the fetch whose       *)
(* response it was set to (0 for the initial empty list), the insight      *)
(* state the number of the commit list it was generated from.              *)
(***************************************************************************)
\* the commit fetches one mounted component issues in the model
MaxFetches == 3

\* the branch lists a repository may have, in the order /api/branches
\* returns them
BranchLists == {<<"dev", "main">>, <<"dev", "master">>, <<"dev">>}

\* lines 95-101: the branch selected once the branch list has arrived
defaultBranch(names, current) ==
    IF "main" \in Range(names) THEN "main"
    ELSE IF "master" \in Range(names) THEN "master"
    ELSE IF Len(names) > 0 THEN names[1]
    ELSE current

\* what the page shows below the early returns of lines 186-201: the branch
\* select and the insight button are rendered only then
ControlsRendered == ~loading /\ ~repoError

InitRepoDetails ==
    /\ PostIdle
    /\ CommitsRouteIdle
    /\ TruncateIdle
    /\ selectedBranch = "main"
    /\ branches = <<>>
    /\ branchesLoading = FALSE
    /\ repoCommits = 0
    /\ loading = FALSE
    /\ repoError = FALSE
    /\ insight = NoInsight
    /\ insightLoading = FALSE
    /\ commitFetches = {}
    /\ insightFetch = NoInsightFetch
    /\ fetchCount = 0
    /\ repoBranches \in BranchLists

\* fetchCommits up to its await (lines 113-121), run by the effect of line
\* 112 for the branch just selected
fetchCommitsIssued(branch) ==
    /\ loading' = TRUE
    /\ repoError' = FALSE
    /\ insight' = NoInsight
    /\ fetchCount' = fetchCount + 1
    /\ commitFetches' =
          commitFetches \cup {[id |-> fetchCount + 1, branch |-> branch]}

\* the first run of both effects: fetchBranches and fetchCommits are
\* issued (lines 79-86 and 112-139)
Mount ==
    /\ selectedBranch # ""
    /\ fetchCount = 0
    /\ branchesLoading' = TRUE
    /\ fetchCommitsIssued(selectedBranch)
    /\ UNCHANGED <<selectedBranch, branches, repoCommits, insightLoading,
                   insightFetch, repoBranches>>
    /\ UNCHANGED <<postVars, commitsRouteVars, truncateVars>>

\* the fetch of /api/branches fails (lines 88-90, 103-107)
BranchesFail ==
    /\ branchesLoading
    /\ branchesLoading' = FALSE
    /\ UNCHANGED <<selectedBranch, branches, repoCommits, loading, repoError,
                   insight, insightLoading, commitFetches, insightFetch,
                   fetchCount, repoBranches>>
    /\ UNCHANGED <<postVars, commitsRouteVars, truncateVars>>

\* the branch list arrives (lines 92-101, 106); a changed selection runs the
\* effect of line 112 again
BranchesArrive ==
    /\ branchesLoading
    /\ branchesLoading' = FALSE
    /\ branches' = repoBranches
    /\ selectedBranch' = defaultBranch(repoBranches, selectedBranch)
    /\ IF defaultBranch(repoBranches, selectedBranch) # selectedBranch
       THEN fetchCommitsIssued(defaultBranch(repoBranches, selectedBranch))
       ELSE UNCHANGED <<loading, repoError, insight, fetchCount, commitFetches>>
    /\ UNCHANGED <<repoCommits, insightLoading, insightFetch, repoBranches>>
    /\ UNCHANGED <<postVars, commitsRouteVars, truncateVars>>

\* the user picks another option of the branch select (lines 249-253); the
\* effect of line 112 runs for it
SelectBranch ==
    /\ ControlsRendered
    /\ ~branchesLoading
    /\ fetchCount > 0
    /\ fetchCount < MaxFetches
    /\ \E b \in Range(branches) :
          /\ b # selectedBranch
          /\ selectedBranch' = b
          /\ fetchCommitsIssued(b)
    /\ UNCHANGED <<branches, branchesLoading, repoCommits, insightLoading,
                   insightFetch, repoBranches>>
    /\ UNCHANGED <<postVars, commitsRouteVars, truncateVars>>

\* a commit fetch resolves with a commit list (lines 123-128, 132-134); the
\* route lists only a branch the repository has
CommitsArrive ==
    /\ \E f \in commitFetches :
          /\ f.branch \in Range(repoBranches)
          /\ repoCommits' = f.id
          /\ commitFetches' = commitFetches \ {f}
    /\ loading' = FALSE
    /\ UNCHANGED <<selectedBranch, branches, branchesLoading, repoError,
                   insight, insightLoading, insightFetch, fetchCount,
                   repoBranches>>
    /\ UNCHANGED <<postVars, commitsRouteVars, truncateVars>>

\* a commit fetch fails or is answered with an error status (lines 123-134)
CommitsFail ==
    /\ \E f \in commitFetches : commitFetches' = commitFetches \ {f}
    /\ repoError' = TRUE
    /\ loading' = FALSE
    /\ UNCHANGED <<selectedBranch, branches, branchesLoading, repoCommits,
                   insight, insightLoading, insightFetch, fetchCount,
                   repoBranches>>
    /\ UNCHANGED <<postVars, commitsRouteVars, truncateVars>>

\* the user presses the insight button (lines 301-303): generateInsight up
\* to its await (lines 142-158), with the commit list of this render
generateInsight ==
    /\ ControlsRendered
    /\ ~insightLoading
    /\ repoCommits # 0
    /\ insightLoading' = TRUE
    /\ repoError' = FALSE
    /\ insightFetch' = [active |-> TRUE, from |-> repoCommits]
    /\ UNCHANGED <<selectedBranch, branches, branchesLoading, repoCommits,
                   loading, insight, commitFetches, fetchCount, repoBranches>>
    /\ UNCHANGED <<postVars, commitsRouteVars, truncateVars>>

\* the insight request resolves with a report (lines 160-172, 182-184)
InsightArrives ==
    /\ insightFetch.active
    /\ insight' = [present |-> TRUE, from |-> insightFetch.from]
    /\ insightLoading' = FALSE
    /\ insightFetch' = NoInsightFetch
    /\ UNCHANGED <<selectedBranch, branches, branchesLoading, repoCommits,
                   loading, repoError, commitFetches, fetchCount, repoBranches>>
    /\ UNCHANGED <<postVars, commitsRouteVars, truncateVars>>

\* the insight request fails or is answered with an error (lines 162-184)
InsightFails ==
    /\ insightFetch.active
    /\ repoError' = TRUE
    /\ insightLoading' = FALSE
    /\ insightFetch' = NoInsightFetch
    /\ UNCHANGED <<selectedBranch, branches, branchesLoading, repoCommits,
                   loading, insight, commitFetches, fetchCount, repoBranches>>
    /\ UNCHANGED <<postVars, commitsRouteVars, truncateVars>>

NextRepoDetails ==
    \/ Mount
    \/ BranchesFail
    \/ BranchesArrive
    \/ SelectBranch
    \/ CommitsArrive
    \/ CommitsFail
    \/ generateInsight
    \/ InsightArrives
    \/ InsightFails

SpecRepoDetails == InitRepoDetails /\ [][NextRepoDetails]_vars

(***************************************************************************)
(* Properties of the commits route.                                        *)
(***************************************************************************)
Positions == 1..Len(lookupTask)

\* the route answered with the commit list
Listed200 == getResponse.status = 200

\* the provenance the callback at position i must have recorded, by the
\* outcome of its own comparison
OwnProvenance(i) ==
    IF lookupTask[i].compared /\ lookupTask[i].comparison.ok
    THEN [present |-> TRUE,
          baseSha |-> listed[i].parents[1], headSha |-> listed[i].parents[2],
          totalCommits |-> lookupTask[i].comparison.total_commits,
          changedFiles |-> lookupTask[i].comparison.files]
    ELSE NoProvenance

\* the commit position i of the listing must yield, by its own lookups
OwnCommit(i) ==
    [sha |-> listed[i].sha,
     message |-> listed[i].message,
     author |-> IF listed[i].login # "" THEN listed[i].login
                ELSE IF listed[i].name # "" THEN listed[i].name ELSE "Unknown",
     isMergeCommit |-> Len(listed[i].parents) >= 2,
     mergeDetails |-> OwnProvenance(i),
     fileDetails |-> lookupTask[i].detail.files,
     files |-> Filenames(lookupTask[i].detail.files)]

\* C14: every returned commit is flagged a merge exactly when its raw commit
\* has two or more parents, whatever its message says
C14_MergeIffTwoOrMoreParents ==
    Listed200 =>
        /\ Len(getResponse.commits) = Len(listed)
        /\ \A i \in 1..Len(listed) :
              getResponse.commits[i].isMergeCommit
                  <=> (Len(listed[i].parents) >= 2)

\* a returned page where the message and the parents disagree both ways
C14_Witness ==
    /\ Listed200
    /\ \E i \in 1..Len(listed) :
          /\ isMergeByMessage(listed[i])
          /\ Len(listed[i].parents) < 2
          /\ ~getResponse.commits[i].isMergeCommit
    /\ \E i \in 1..Len(listed) :
          /\ ~isMergeByMessage(listed[i])
          /\ Len(listed[i].parents) >= 2
          /\ getResponse.commits[i].isMergeCommit

\* the comparison of the merge at position i settled with a rejection
ComparisonFailed(i) ==
    /\ lookupTask[i].compared
    /\ lookupTask[i].at # "compare"
    /\ ~lookupTask[i].comparison.ok

\* C15: a failed comparison of a merge is not fatal: its callback fulfils
\* with isMergeCommit true and mergeDetails null, and once every callback has
\* fulfilled the route answers 200 with that commit and with every other
\* commit of the page as its own lookups yield it
C15_ComparisonFailureIsNotFatal ==
    \A i \in Positions :
        ComparisonFailed(i) =>
            /\ lookupTask[i].at = "fulfilled"
            /\ lookupTask[i].value.isMergeCommit
            /\ lookupTask[i].value.mergeDetails = NoProvenance
            /\ AllFulfilled(lookupTask) =>
                  /\ Listed200
                  /\ getResponse.error = ""
                  /\ Len(getResponse.commits) = Len(listed)
                  /\ getResponse.commits[i].isMergeCommit
                  /\ getResponse.commits[i].mergeDetails = NoProvenance
                  /\ \A j \in Positions : getResponse.commits[j] = OwnCommit(j)

\* a page of two commits answered 200 although one comparison failed
C15_Witness ==
    /\ Listed200
    /\ Len(listed) = 2
    /\ \E i \in Positions : ComparisonFailed(i)
    /\ \E j \in Positions : ~ComparisonFailed(j)

\* the getCommit of the commit at position i settled with a rejection
DetailFailed(i) ==
    /\ lookupTask[i].at # "detail"
    /\ ~lookupTask[i].detail.ok

\* C16: as soon as the detail lookup of one commit has failed the route has
\* answered 500 without any commit list, whatever the other lookups did or
\* will do
C16_DetailFailureFailsRequest ==
    (\E i \in Positions : DetailFailed(i)) =>
        /\ getResponse.status = 500
        /\ getResponse.error = "Failed to fetch commits"
        /\ getResponse.commits = <<>>

\* one detail lookup failed after the callback of another commit had
\* fulfilled
C16_Witness ==
    /\ getResponse.status = 500
    /\ \E i \in Positions : DetailFailed(i)
    /\ \E j \in Positions : lookupTask[j].at = "fulfilled"

\* the number of lookups in flight
InFlight ==
    Cardinality({i \in Positions : lookupTask[i].at \in {"detail", "compare"}})

\* C17: every listed commit has its lookup issued before any lookup settles,
\* and the returned list holds at position i the commit built from position
\* i of the listing, in whatever order the callbacks fulfilled
C17_ConcurrentLookupsKeepListingOrder ==
    /\ getPc = "tasks" =>
          /\ Len(lookupTask) = Len(listed)
          /\ InFlight = Len(listed) - Cardinality({i \in Positions :
                            lookupTask[i].at \in {"fulfilled", "rejected"}})
    /\ Listed200 =>
          /\ Len(getResponse.commits) = Len(listed)
          /\ \A i \in 1..Len(listed) :
                /\ getResponse.commits[i].sha = listed[i].sha
                /\ getResponse.commits[i] = OwnCommit(i)

\* two different commits returned although the second fulfilled first
C17_Witness ==
    /\ Listed200
    /\ Len(listed) = 2
    /\ listed[1] # listed[2]
    /\ completions = <<2, 1>>

\* C18: a commit carries provenance only if it is flagged a merge, a
\* comparison is issued only for a commit of two or more parents, and an
\* emitted commit cost one lookup if direct and two if merge
C18_ProvenanceOnlyForMerges ==
    /\ \A i \in Positions :
          /\ lookupTask[i].compared => Len(listed[i].parents) >= 2
          /\ lookupTask[i].at = "fulfilled" =>
                /\ lookupTask[i].value.mergeDetails.present
                      => lookupTask[i].value.isMergeCommit
                /\ lookupTask[i].lookups =
                      IF Len(listed[i].parents) >= 2 THEN 2 ELSE 1
    /\ Listed200 =>
          \A i \in 1..Len(getResponse.commits) :
              getResponse.commits[i].mergeDetails.present
                  => getResponse.commits[i].isMergeCommit

\* a returned page with a direct commit of one lookup and a merge of two
\* lookups that carries provenance
C18_Witness ==
    /\ Listed200
    /\ \E i \in Positions :
          /\ ~getResponse.commits[i].isMergeCommit
          /\ Len(listed[i].parents) = 1
          /\ lookupTask[i].lookups = 1
    /\ \E i \in Positions :
          /\ getResponse.commits[i].mergeDetails.present
          /\ lookupTask[i].lookups = 2

\* C19: every returned commit flagged a merge has an empty fileDetails list
C19_MergeHasNoFileDetails ==
    Listed200 =>
        \A i \in 1..Len(getResponse.commits) :
            getResponse.commits[i].isMergeCommit
                => getResponse.commits[i].fileDetails = <<>>

(***************************************************************************)
(* Properties of truncatePatch.                                            *)
(***************************************************************************)
HasMarker(lines) == \E k \in 1..Len(lines) : lines[k] < 0

\* C20: a patch of at most maxLines lines is returned unchanged, and an
\* empty or absent patch gives the empty string, which holds no marker
C20_ShortPatchUnchangedEmptyStaysEmpty ==
    truncated.returned =>
        /\ (patchArg.defined /\ Len(patchArg.lines) <= maxLinesArg)
              => truncated.lines = patchArg.lines
        /\ (~patchArg.defined \/ patchArg.lines = <<>>)
              => /\ truncated.lines = <<>>
                 /\ ~HasMarker(truncated.lines)

\* a patch of exactly maxLines lines came back unchanged
C20_Witness ==
    /\ truncated.returned
    /\ patchArg.defined
    /\ Len(patchArg.lines) = maxLinesArg
    /\ maxLinesArg > 0
    /\ truncated.lines = patchArg.lines

\* the call was given a text of more lines than the budget
Elided ==
    /\ truncated.returned
    /\ patchArg.defined
    /\ Len(patchArg.lines) > maxLinesArg

\* the positions of the result that hold a marker
MarkerPositions == {k \in 1..Len(truncated.lines) : truncated.lines[k] < 0}

\* the input lines that the result leaves out, given that it kept h leading
\* and t trailing lines
LeftOut(h, t) == Len(patchArg.lines) - h - t

\* the result is h leading input lines, a marker printing n between blank
\* lines, and t trailing input lines; a half of no lines is the empty string
\* in front of (behind) the line break
KeepsHeadAndTail(h, t, n) ==
    truncated.lines =
        joined(Take(patchArg.lines, h))
            \o <<BlankLine, Marker(n), BlankLine>>
            \o joined(LastN(patchArg.lines, t))

\* C21: a text longer than the budget comes back as its first budget/2
\* lines, one marker printing (line count - budget), and its last budget/2
\* lines, and the marker's number is the number of lines left out
C21_HeadMarkerTail ==
    Elided =>
        /\ KeepsHeadAndTail(maxLinesArg \div 2, maxLinesArg \div 2,
                            Len(patchArg.lines) - maxLinesArg)
        /\ Cardinality(MarkerPositions) = 1
        /\ LeftOut(maxLinesArg \div 2, maxLinesArg \div 2)
              = Len(patchArg.lines) - maxLinesArg

\* C21 for the even budgets alone, which is what the code does
C21_HeadMarkerTailEvenBudget ==
    (Elided /\ maxLinesArg % 2 = 0) =>
        /\ KeepsHeadAndTail(maxLinesArg \div 2, maxLinesArg \div 2,
                            Len(patchArg.lines) - maxLinesArg)
        /\ Cardinality(MarkerPositions) = 1
        /\ LeftOut(maxLinesArg \div 2, maxLinesArg \div 2)
              = Len(patchArg.lines) - maxLinesArg

\* C22: the returned text has at most budget lines, the marker and the
\* blank lines around it counted
C22_ResultWithinBudget ==
    (truncated.returned /\ truncated.lines # <<>>) =>
        Len(truncated.lines) <= maxLinesArg

\* C23: with an odd budget a longer text keeps floor(budget/2) leading and
\* floor(budget/2) trailing lines
C23_OddBudgetRoundsDownEachHalf ==
    (Elided /\ maxLinesArg % 2 = 1) =>
        \E n \in 0..Len(patchArg.lines) :
            KeepsHeadAndTail(maxLinesArg \div 2, maxLinesArg \div 2, n)

\* what the code keeps with an odd budget: the trailing half rounds up
C23_OddBudgetTailRoundsUp ==
    (Elided /\ maxLinesArg % 2 = 1) =>
        KeepsHeadAndTail(maxLinesArg \div 2, (maxLinesArg + 1) \div 2,
                         Len(patchArg.lines) - maxLinesArg)

(***************************************************************************)
(* Failure responses of POST.                                              *)
(***************************************************************************)
\* the request body is no valid batch: no JSON, null, a scalar, or an object
\* whose commits field is missing, no array, or empty
MalformedInput == ~ValidBatch

\* C24: every failure response holds an error and a message; malformed
\* input (a null or unparseable body included) is answered 400, and 500 is
\* answered only to well-formed input
C24_FailureResponsesCarryErrorAndMessage ==
    (Answered /\ response.status # 200) =>
        /\ response.error # ""
        /\ response.hasMessage
        /\ MalformedInput => response.status = 400
        /\ response.status = 500 => ~MalformedInput

(***************************************************************************)
(* Both routes of the server: a request is a POST of insights or a GET of  *)
(* commits.                                                                *)
(***************************************************************************)
InitRoutes == Init \/ InitCommits

NextRoutes ==
    \/ POST_Entry
    \/ SkipStage
    \/ IssueCall
    \/ CompleteCall
    \/ POST_Return
    \/ GET_Entry
    \/ ListFails
    \/ ListReturns
    \/ DetailSettles
    \/ ComparisonSettles

SpecRoutes == InitRoutes /\ [][NextRoutes]_vars

\* the entries of the aggregator's result that bear a name
EntriesNamed(name) ==
    {i \in 1..Len(contributors) : contributors[i].name = name}

\* C25: a commit returned by the commits route bears the login of the linked
\* account, else the author name of the commit metadata, else "Unknown";
\* the aggregator counts the commits without author in the one entry named
\* "Unknown" and makes no entry with an empty name
C25_AuthorResolutionOrder ==
    /\ Listed200 =>
          \A i \in 1..Len(listed) :
              getResponse.commits[i].author =
                  IF listed[i].login # "" THEN listed[i].login
                  ELSE IF listed[i].name # "" THEN listed[i].name
                  ELSE "Unknown"
    /\ (Aggregated /\ response.status # 500) =>
          /\ EntriesNamed("") = {}
          /\ \A k \in 1..Len(Batch) :
                Batch[k].author = "" =>
                    /\ Cardinality(EntriesNamed("Unknown")) = 1
                    /\ \A i \in EntriesNamed("Unknown") :
                          contributors[i].totalCommits =
                              Len(CommitsOfAuthor(Batch, "Unknown"))

\* a returned page with a commit named by the metadata and a commit without
\* login and name
C25_Witness ==
    /\ Listed200
    /\ \E i \in 1..Len(listed) :
          /\ listed[i].login = ""
          /\ listed[i].name # ""
          /\ getResponse.commits[i].author = listed[i].name
    /\ \E i \in 1..Len(listed) :
          /\ listed[i].login = ""
          /\ listed[i].name = ""
          /\ getResponse.commits[i].author = "Unknown"

\* a batch whose commits without author were counted under "Unknown"
C25_WitnessAggregator ==
    /\ Succeeded
    /\ \E k \in 1..Len(Batch) : Batch[k].author = ""
    /\ \E i \in 1..Len(contributors) : contributors[i].name = "Unknown"

(***************************************************************************)
(* The prompt of the project stage.                                        *)
(***************************************************************************)
\* the first lines of the messages of the first five commits of the batch
RecentMessages ==
    LET recent == Take(Batch, RecentCommits)
    IN  [i \in 1..Len(recent) |-> Head(recent[i].message)]

\* C26: the files of the project prompt are the distinct filenames of the
\* batch (file changes of the direct commits, changedFiles of the merge
\* provenance), at most the first 50 of them, and its commit lines are the
\* first lines of the messages of the first 5 commits
C26_ProjectPromptSamplesAllFilenames ==
    \A i \in 1..Len(calls) :
        calls[i].stage = "project" =>
            LET listedFiles == calls[i].prompt[2].files
                omitted == calls[i].prompt[2].more
                lines == calls[i].prompt[3].messages
            IN  /\ Len(listedFiles) <= FileSample
                /\ Len(listedFiles) + omitted = Cardinality(DirectAndMergeFilenames)
                /\ Cardinality(DirectAndMergeFilenames) <= FileSample
                      => Range(listedFiles) = DirectAndMergeFilenames
                /\ Len(lines) <= RecentCommits
                /\ [k \in 1..Len(lines) |-> lines[k].message] = RecentMessages

\* the same for the batches whose commits all have at most five file
\* changes, and whose merge commits have no file changes of their own
C26_ProjectPromptWhenNothingDropped ==
    \A i \in 1..Len(calls) :
        (/\ calls[i].stage = "project"
         /\ \A k \in 1..Len(Batch) :
               /\ Len(Batch[k].fileDetails) <= FileCap
               /\ Len(Batch[k].mergeDetails.changedFiles) <= FileCap
               /\ Batch[k].isMergeCommit => Batch[k].fileDetails = <<>>) =>
            /\ Range(calls[i].prompt[2].files) = DirectAndMergeFilenames
            /\ calls[i].prompt[2].more = 0
            /\ [k \in 1..Len(calls[i].prompt[3].messages) |->
                   calls[i].prompt[3].messages[k].message] = RecentMessages

(***************************************************************************)
(* Section headers of the report.                                          *)
(***************************************************************************)
\* how often the header of a stage occurs in a text
Occurrences(text, stage) ==
    Cardinality({k \in 1..Len(text) : text[k] = Header(stage)})

\* C27: whatever the outcome of each call (text, thrown error, response
\* without choices), the header of every executed stage occurs exactly once
\* in the final report
C27_EachHeaderExactlyOnce ==
    Succeeded =>
        \A stage \in CalledStages :
            Occurrences(response.insight, stage) = 1

\* the same when no call returned a response without choices
C27_HeaderOnceUnlessNoChoices ==
    (Succeeded /\ \A i \in 1..Len(calls) : calls[i].outcome # "nochoices") =>
        \A stage \in CalledStages :
            Occurrences(response.insight, stage) = 1

(***************************************************************************)
(* The commit counts of the statistics.                                    *)
(***************************************************************************)
\* the non-merge commits of the batch that have no file change
DirectWithoutFiles ==
    {k \in 1..Len(Batch) : ~Batch[k].isMergeCommit /\ Batch[k].fileDetails = <<>>}

\* the non-merge commits of an author in the batch
DirectOfAuthor(author) ==
    {k \in 1..Len(Batch) : ~Batch[k].isMergeCommit /\ AuthorKey(Batch[k]) = author}

\* the counts of the statistics against the batch
CountsOfStatistics ==
    /\ response.stats.commits = Len(Batch)
    /\ response.stats.directCommits + response.stats.mergeCommits
          <= response.stats.commits
    /\ (response.stats.directCommits + response.stats.mergeCommits
          = response.stats.commits) <=> (DirectWithoutFiles = {})
    /\ response.stats.directCommits + Cardinality(DirectWithoutFiles)
          + response.stats.mergeCommits = response.stats.commits

\* a commit without files is counted in the directCommits of the entry of
\* its author
CountedForItsAuthor(k) ==
    \E i \in 1..Len(contributors) :
        /\ contributors[i].name = AuthorKey(Batch[k])
        /\ contributors[i].directCommits
              = Cardinality(DirectOfAuthor(AuthorKey(Batch[k])))

\* C28: directCommits + mergeCommits <= commits in the statistics, with
\* equality exactly when no non-merge commit has an empty file list; such a
\* commit is counted in stats.commits and in the directCommits of its
\* author, not in stats.directCommits
C28_DirectPlusMergeAtMostCommits ==
    Succeeded =>
        /\ CountsOfStatistics
        /\ \A k \in DirectWithoutFiles : CountedForItsAuthor(k)

\* the same with the author entries asked only for the names that are no
\* member of Object.prototype
C28_CountsForOwnAuthorNames ==
    Succeeded =>
        /\ CountsOfStatistics
        /\ \A k \in DirectWithoutFiles :
              AuthorKey(Batch[k]) \notin InheritedNames => CountedForItsAuthor(k)

(***************************************************************************)
(* One entry per author.                                                   *)
(***************************************************************************)
\* the distinct author names of the batch, the empty name read as "Unknown"
AuthorNames == {AuthorKey(Batch[k]) : k \in 1..Len(Batch)}

SumOfTotalCommits ==
    LET sum[i \in 0..Len(contributors)] ==
            IF i = 0 THEN 0 ELSE sum[i - 1] + contributors[i].totalCommits
    IN  sum[Len(contributors)]

SumOfMergeCommits ==
    LET sum[i \in 0..Len(contributors)] ==
            IF i = 0 THEN 0 ELSE sum[i - 1] + contributors[i].mergeCommits
    IN  sum[Len(contributors)]

MergesOfBatch == {k \in 1..Len(Batch) : Batch[k].isMergeCommit}

\* the result of analyzeContributors has one entry per author of the batch
\* and its counts add up to the batch
OneEntryPerAuthor ==
    /\ {contributors[i].name : i \in 1..Len(contributors)} = AuthorNames
    /\ Len(contributors) = Cardinality(AuthorNames)
    /\ SumOfTotalCommits = Len(Batch)
    /\ SumOfMergeCommits = Cardinality(MergesOfBatch)

\* C29: for every batch and every author name, analyzeContributors returns
\* exactly one entry per distinct author name, the totalCommits of the
\* entries sum to the number of commits and their mergeCommits to the number
\* of merge commits
C29_OneEntryPerAuthorCountsAddUp ==
    (ValidBatch /\ pc # "start") => OneEntryPerAuthor

\* the same for the batches no author of which bears the name of a member
\* of Object.prototype
C29_OneEntryPerOwnAuthorName ==
    (ValidBatch /\ pc # "start" /\ AuthorNames \cap InheritedNames = {})
        => OneEntryPerAuthor

(***************************************************************************)
(* The state of RepoDetails against the selected branch.                   *)
(***************************************************************************)
\* no request of the component is in flight and no error is shown
Settled ==
    /\ fetchCount > 0
    /\ commitFetches = {}
    /\ ~insightFetch.active
    /\ ~repoError

\* the commit list is the response of the fetch issued last, which is the
\* fetch for the branch now selected
CommitListOfSelectedBranch == repoCommits = fetchCount

\* C30: once no fetch is in flight, the commit list in state is the
\* response of the fetch issued for the selected branch, and an insight in
\* state was generated from that commit list
C30_StateFollowsSelectedBranch ==
    Settled =>
        /\ CommitListOfSelectedBranch
        /\ insight.present => insight.from = repoCommits

\* the part of C30 about the commit list alone
C30_CommitListFollowsSelectedBranch ==
    Settled => CommitListOfSelectedBranch

====
